---- MODULE Spec2Model ----
(***************************************************************************)
(* State-machine model of the JMComicDownloader plugin (src/main.py).      *)
(*                                                                         *)
(* The plugin runs on one asyncio event loop.  A coroutine runs without    *)
(* interruption from one await to the next, so every action below is the   *)
(* code between two suspension points of one coroutine:                    *)
(*   - handle_jm_command (the /jm handler), one frame per command,         *)
(*   - process_download, one frame per spawned task, with                  *)
(*     send_file_and_notify inlined at its call site (line 254),           *)
(*   - the executor worker that runs client.download_album,                *)
(*   - handle_jm_search (the /jm_search handler) and the worker that runs  *)
(*     client.search_album; its runs are specified on their own            *)
(*     (SearchSpec), since it shares nothing with the /jm frames but the   *)
(*     chat and the library guard.                                         *)
(* Every awaited transport call (send_group_message, send_private_message, *)
(* upload_group_file, upload_private_file) either returns or raises; the   *)
(* library calls ui.search_cache and client.download_album either return a *)
(* result or raise.  Each frame keeps a log of the external calls it made, *)
(* in order, with the outcome of each.                                     *)
(*                                                                         *)
(* The model lets the frames that are ready take their steps in any order  *)
(* and lets a worker finish at any time: the order in which the event loop *)
(* runs ready frames, whether an awaited transport call suspends at all,   *)
(* and how long a call takes are not fixed by the code.                    *)
(*                                                                         *)
(* Strings that the code inspects (command text, identifiers, paths) are   *)
(* sequences of one-character strings; the empty sequence is Python's      *)
(* falsy value (None or "").  A chat message is a record holding the parts *)
(* the f-string is built from.                                             *)
(***************************************************************************)
EXTENDS Integers, Sequences, FiniteSets, TLC

VARIABLES
    jm_option,  \* "module" when the jmcomic import succeeded, "None" otherwise
    chat,       \* event.message_type of the chat the commands come from
    files,      \* the paths for which os.path.exists is true
    cmds,       \* the handle_jm_command frames, in order of arrival
    tasks,      \* the process_download frames, in order of create_task
    searches    \* the handle_jm_search frames, in order of arrival

vars == <<jm_option, chat, files, cmds, tasks, searches>>

\* ------------------------------------------------------------------ bounds

\* Commands received in one run.
MaxCmds == 2

\* Tasks spawned in one run (a command is accepted only if its identifiers fit).
MaxTasks == 2

\* Entries of one search_cache file list.
MaxFileList == 2

\* -------------------------------------------------------------- text, paths

None == <<>>

IsDigit(c) == c \in {"0", "1", "2", "3", "4", "5", "6", "7", "8", "9"}

IsSpace(c) == c \in {" "}

\* str.strip()
RECURSIVE LStrip(_)
LStrip(s) == IF s # <<>> /\ IsSpace(Head(s)) THEN LStrip(Tail(s)) ELSE s

RECURSIVE RStrip(_)
RStrip(s) ==
    IF s # <<>> /\ IsSpace(s[Len(s)]) THEN RStrip(SubSeq(s, 1, Len(s) - 1)) ELSE s

Strip(s) == RStrip(LStrip(s))

\* re.findall(r"\d+", text): the maximal runs of digits, left to right.
\* cur is the run being read, acc the runs already closed.
RECURSIVE FindAllFrom(_, _, _, _)
FindAllFrom(text, i, cur, acc) ==
    IF i > Len(text)
    THEN IF cur = <<>> THEN acc ELSE Append(acc, cur)
    ELSE IF IsDigit(text[i])
         THEN FindAllFrom(text, i + 1, Append(cur, text[i]), acc)
         ELSE FindAllFrom(text, i + 1, <<>>,
                          IF cur = <<>> THEN acc ELSE Append(acc, cur))

\* Mutant of FindAll: the identifiers are deduplicated.
RECURSIVE Unique(_)
Unique(seq) ==
    IF seq = <<>> THEN <<>>
    ELSE LET front == Unique(SubSeq(seq, 1, Len(seq) - 1))
             last == seq[Len(seq)]
         IN  IF \E i \in DOMAIN front : front[i] = last THEN front
             ELSE Append(front, last)

FindAll_Unique(text) == Unique(FindAllFrom(text, 1, <<>>, <<>>))

FindAll(text) == FindAllFrom(text, 1, <<>>, <<>>)

\* str.endswith
EndsWith(s, suffix) ==
    /\ Len(s) >= Len(suffix)
    /\ SubSeq(s, Len(s) - Len(suffix) + 1, Len(s)) = suffix

\* os.path.join of a directory and a relative name
PathJoin(dir, name) == dir \o <<"/">> \o name

PdfExt == <<".", "p", "d", "f">>

\* self.download_dir (the configured value, abbreviated)
download_dir == <<"o">>

\* f"{album_id}.pdf"
ExpectedPdfName(album_id) == album_id \o PdfExt

\* os.path.join(self.download_dir, f"{album_id}.pdf")
ExpectedPdfPath(album_id) == PathJoin(download_dir, ExpectedPdfName(album_id))

\* Mutant of Exists: the probe looks at a path that is never there.
Exists_Never(path) == FALSE

\* os.path.exists
Exists(path) == path \in files

\* Mutant of FirstMatch: the last matching entry is taken.
RECURSIVE FirstMatch_Last(_, _)
FirstMatch_Last(file_list, album_id) ==
    IF file_list = <<>> THEN None
    ELSE IF EndsWith(file_list[Len(file_list)], ExpectedPdfName(album_id))
         THEN file_list[Len(file_list)]
         ELSE FirstMatch_Last(SubSeq(file_list, 1, Len(file_list) - 1), album_id)

\* next((fp for fp in file_list if fp.endswith(f"{album_id}.pdf")), None)
RECURSIVE FirstMatch(_, _)
FirstMatch(file_list, album_id) ==
    IF file_list = <<>> THEN None
    ELSE IF EndsWith(Head(file_list), ExpectedPdfName(album_id))
         THEN Head(file_list)
         ELSE FirstMatch(Tail(file_list), album_id)

\* ------------------------------------------------------------------ inputs

\* The text after "/jm" (match.group(1)) of the commands the model sends.
CommandTexts ==
    { <<"x">>,
      <<"1", " ">>,
      <<"9", "1">>,
      <<"1", " ", "1">>,
      <<"1", "x", "9", "1">>,
      <<"1", " ", "9", "1", " ", "1">> }

MessageTypes == {"group", "private"}

\* Identifiers the commands above can name.
AlbumIds == { <<"1">>, <<"9", "1">> }

\* Paths the library's cache index may list (it scans directories of its own).
CacheFiles ==
    { PathJoin(<<"c">>, ExpectedPdfName(<<"1">>)),
      PathJoin(<<"c">>, ExpectedPdfName(<<"9", "1">>)) }

RECURSIVE SeqsUpTo(_, _)
SeqsUpTo(S, n) ==
    IF n = 0 THEN { <<>> }
    ELSE LET shorter == SeqsUpTo(S, n - 1)
         IN  shorter \cup { Append(s, x) : s \in { q \in shorter : Len(q) = n - 1 }, x \in S }

\* What ui.search_cache can produce: a result object, or an exception.
SearchResults ==
    { [raised |-> FALSE, ok |-> ok, file_list |-> fl] :
        ok \in BOOLEAN, fl \in SeqsUpTo(CacheFiles, MaxFileList) }
    \cup { [raised |-> TRUE, ok |-> FALSE, file_list |-> <<>>] }

\* What client.download_album(album_id) can produce: a DownloadResult
\* (ok, msg, album.file_path), or an exception.
DownloadResults(album_id) ==
    { [raised |-> FALSE, ok |-> TRUE, msg |-> "", file_path |-> p] :
        p \in {None, ExpectedPdfPath(album_id)} }
    \cup { [raised |-> FALSE, ok |-> FALSE, msg |-> "album not found", file_path |-> p] :
        p \in {None, ExpectedPdfPath(album_id)} }
    \cup { [raised |-> TRUE, ok |-> FALSE, msg |-> "", file_path |-> None] }

NoResult == [raised |-> FALSE, ok |-> FALSE, msg |-> "", file_path |-> None]

\* ---------------------------------------------------------------- messages

\* at_user: the CQ code in a group, empty in a private chat
AtUser(message_type) == IF message_type = "group" THEN "[CQ:at]" ELSE ""

\* The parts of one f-string: which message it is (kind), the at_user prefix,
\* the identifier and file name it names, the count and the text (an error's
\* str(e) or a result's msg) it carries.
Message(kind, at, album_id, file_name, n, detail) ==
    [kind |-> kind, at |-> at, album_id |-> album_id, file_name |-> file_name,
     n |-> n, detail |-> detail]

NoMessage == Message("", "", None, None, 0, "")

\* os.path.basename
RECURSIVE Basename(_)
Basename(path) ==
    IF \E i \in 1..Len(path) : path[i] = "/"
    THEN Basename(Tail(path))
    ELSE path

\* One external call of a frame.  res is "pending" until the call returns
\* ("ok") or raises ("raise").
Call(op, path, message) ==
    [op |-> op, path |-> path, message |-> message, res |-> "pending"]

\* The last call of a log gets its outcome.
Settle(log, res) == [log EXCEPT ![Len(log)].res = res]

\* send_reply: the transport call it awaits
SendReplyCall(message_type, message) ==
    Call(IF message_type = "group" THEN "send_group_message" ELSE "send_private_message",
         None, message)

\* the upload call send_file_and_notify awaits
UploadCall(message_type, file_path) ==
    Call(IF message_type = "group" THEN "upload_group_file" ELSE "upload_private_file",
         file_path, NoMessage)

\* ------------------------------------------------------------------ frames

\* A process_download frame as asyncio.create_task leaves it (line 128):
\* scheduled, not yet run.  fut is the executor future of line 263.
NewTask(c, message_type, album_id) ==
    [cmd |-> c, message_type |-> message_type, at_user |-> AtUser(message_type),
     album_id |-> album_id, pc |-> "start", pdf_path |-> None,
     fut |-> "none", fut_result |-> NoResult, dl_result |-> NoResult,
     log |-> <<>>, after |-> {}]

\* await self.send_reply(event, message), up to the suspension
SendReply(tk, message, pc) ==
    [tk EXCEPT !.log = Append(@, SendReplyCall(tk.message_type, message)), !.pc = pc]

\* Mutant of ReturnNone: the coroutine waits for an event nobody sets.
ReturnNone_Suspended(tk) == [tk EXCEPT !.pc = "suspended"]

\* The coroutine returns.
ReturnNone(tk) == [tk EXCEPT !.pc = "returned"]

\* The exception leaves the coroutine.
Escape(tk) == [tk EXCEPT !.pc = "raised"]

\* Mutant of Except: no except clause, the exception leaves the task.
Except_NotCaught(tk, e) == Escape(tk)

\* process_download's except clause (lines 291-293), e the exception's text
Except(tk, e) ==
    SendReply(tk, Message("error", "", tk.album_id, None, 0, e), "reply_error")

\* send_file_and_notify's except clause (lines 319-321)
SendFileExcept(tk, e) ==
    SendReply(tk, Message("send_failed", "", tk.album_id, None, 0, e),
              "reply_send_failed")

\* send_file_and_notify up to its upload call (lines 299-314)
SendFileAndNotify(tk, file_path) ==
    [tk EXCEPT !.log = Append(@, UploadCall(tk.message_type, file_path)),
               !.pc = "upload"]

\* line 317: the completion notice, after the upload returned
NotifyDone(tk) ==
    LET file_path == tk.log[Len(tk.log)].path
    IN  SendReply(tk, Message("done", tk.at_user, tk.album_id, Basename(file_path), 0, ""),
                  "reply_done")

\* lines 262-267: the blocking download handed to the default executor
RunInExecutor(tk) ==
    [tk EXCEPT !.log = Append(@, Call("download_album", tk.album_id, NoMessage)),
               !.fut = "running", !.pc = "run_in_executor"]

\* line 259: the notice before the download
NotifyStart(tk) ==
    SendReply(tk, Message("start", "", tk.album_id, None, 0, ""), "reply_start")

\* lines 250-255 up to the first await: the cache was found
NotifyFound(tk) ==
    SendReply(tk, Message("found", "", tk.album_id, None, 0, ""), "reply_found")

\* lines 237-248: the cache lookup.  sr is what ui.search_cache returns or
\* raises if it is called; it is called only when the expected path is absent.
LocateCache(tk, sr) ==
    LET expected_pdf_path == ExpectedPdfPath(tk.album_id)
        probed == [tk EXCEPT !.log = Append(@,
                      [Call("exists", expected_pdf_path, NoMessage)
                         EXCEPT !.res = IF Exists(expected_pdf_path) THEN "true" ELSE "false"])]
    IN  IF Exists(expected_pdf_path)
        THEN [probed EXCEPT !.pdf_path = expected_pdf_path]
        ELSE LET searched == [probed EXCEPT !.log = Append(@,
                                 [Call("search_cache", tk.album_id, NoMessage)
                                    EXCEPT !.res = IF sr.raised THEN "raise" ELSE "ok"])]
             IN  IF sr.raised THEN searched
                 ELSE IF sr.ok
                      THEN [searched EXCEPT !.pdf_path = FirstMatch(sr.file_list, tk.album_id)]
                      ELSE searched

\* Mutant of CheckCache: the task does not look for a cache before it
\* announces the download.
CheckCache_Skipped(tk, sr) == NotifyStart(tk)

\* lines 230-259: from the start of the task to its first await
CheckCache(tk, sr) ==
    LET located == LocateCache(tk, sr)
    IN  IF located.log[Len(located.log)].res = "raise"
        THEN Except(located, "CacheError")
        ELSE IF located.pdf_path # None
             THEN NotifyFound(located)
             ELSE NotifyStart(located)

\* Mutant of AfterSendFile: the return of line 255 is missing, so the task
\* goes on to the download of lines 257-267.
AfterSendFile_NoReturn(tk) == NotifyStart(tk)

\* line 255: send_file_and_notify returned; process_download returns
AfterSendFile(tk) == ReturnNone(tk)

\* lines 269-271: the statement after the download.  Its argument
\* f"... {dl.msg}" names dl, which is not defined: evaluating it raises
\* NameError before send_reply is called, whatever dl_result holds.
HandleDownloadResult(tk) == Except(tk, "NameError")

\* An awaited send_reply returned: the code that follows it.
ReplyReturned(tk) ==
    LET s == [tk EXCEPT !.log = Settle(@, "ok")]
    IN  CASE tk.pc = "reply_found" -> SendFileAndNotify(s, s.pdf_path)
          [] tk.pc = "reply_start" -> RunInExecutor(s)
          [] tk.pc = "reply_done" -> AfterSendFile(s)
          [] tk.pc = "reply_send_failed" -> AfterSendFile(s)
          [] tk.pc = "reply_error" -> ReturnNone(s)

\* An awaited send_reply raised: the except clause that catches it.
ReplyRaised(tk) ==
    LET s == [tk EXCEPT !.log = Settle(@, "raise")]
    IN  CASE tk.pc = "reply_found" -> Except(s, "TransportError")
          [] tk.pc = "reply_start" -> Except(s, "TransportError")
          [] tk.pc = "reply_done" -> SendFileExcept(s, "TransportError")
          [] tk.pc = "reply_send_failed" -> Except(s, "TransportError")
          [] tk.pc = "reply_error" -> Escape(s)

\* The awaited upload returned (line 317 follows) or raised (line 319).
UploadReturned(tk) == NotifyDone([tk EXCEPT !.log = Settle(@, "ok")])

\* Mutant of UploadRaised: a rejected upload is tried again.
UploadRaised_Retry(tk) ==
    SendFileAndNotify([tk EXCEPT !.log = Settle(@, "raise")], tk.log[Len(tk.log)].path)

UploadRaised(tk) == SendFileExcept([tk EXCEPT !.log = Settle(@, "raise")], "TransportError")

\* Mutant of ExecutorResumed: a download that raised or reported not-ok is
\* submitted again.
ExecutorResumed_Retry(tk) ==
    IF tk.fut_result.raised \/ ~tk.fut_result.ok
    THEN RunInExecutor([tk EXCEPT !.log = Settle(@, "raise")])
    ELSE HandleDownloadResult([tk EXCEPT !.log = Settle(@, "ok"),
                                         !.dl_result = tk.fut_result])

\* line 263 resumes with the worker's outcome: the call's exception is
\* re-raised in the coroutine, its result is bound to dl_result.
ExecutorResumed(tk) ==
    IF tk.fut_result.raised
    THEN Except([tk EXCEPT !.log = Settle(@, "raise")], "DownloadError")
    ELSE HandleDownloadResult([tk EXCEPT !.log = Settle(@, "ok"),
                                         !.dl_result = tk.fut_result])

ReplyPcs == {"reply_found", "reply_start", "reply_done", "reply_send_failed", "reply_error"}

\* ------------------------------------------------------- the command handler

\* Mutant of Dispatch: the check of line 120 is missing, an empty list of
\* identifiers is acknowledged like any other.
Dispatch_NoValidation(text, message_type) ==
    LET text_content == Strip(text)
        album_ids == FindAll(text_content)
        frame == [text_content |-> text_content, message_type |-> message_type,
                  album_ids |-> album_ids, pc |-> "", log |-> <<>>]
    IN  IF jm_option = "None"
        THEN [frame EXCEPT !.album_ids = <<>>, !.pc = "reply_no_library",
                !.log = <<SendReplyCall(message_type,
                            Message("no_library", "", None, None, 0, ""))>>]
        ELSE [frame EXCEPT !.pc = "reply_ack",
                !.log = <<SendReplyCall(message_type,
                            Message("ack", AtUser(message_type), None, None,
                                    Len(album_ids), ""))>>]

\* handle_jm_command up to its first await (lines 109-124)
Dispatch(text, message_type) ==
    LET text_content == Strip(text)
        album_ids == FindAll(text_content)
        at_user == AtUser(message_type)
        frame == [text_content |-> text_content, message_type |-> message_type,
                  album_ids |-> album_ids, pc |-> "", log |-> <<>>]
    IN  IF jm_option = "None"
        THEN [frame EXCEPT !.album_ids = <<>>, !.pc = "reply_no_library",
                !.log = <<SendReplyCall(message_type,
                            Message("no_library", "", None, None, 0, ""))>>]
        ELSE IF album_ids = <<>>
             THEN [frame EXCEPT !.pc = "reply_no_ids",
                     !.log = <<SendReplyCall(message_type,
                                 Message("no_ids", at_user, None, None, 0, ""))>>]
             ELSE [frame EXCEPT !.pc = "reply_ack",
                     !.log = <<SendReplyCall(message_type,
                                 Message("ack", at_user, None, None, Len(album_ids), ""))>>]

\* lines 127-128: one create_task per identifier, in order
SpawnTasks(c, frame) ==
    [i \in 1..Len(frame.album_ids) |-> NewTask(c, frame.message_type, frame.album_ids[i])]

\* Mutant of HandlerReturned: the handler awaits the tasks it started instead
\* of returning.
HandlerReturned_Awaits(frame) ==
    [frame EXCEPT !.log = Settle(@, "ok"),
                  !.pc = IF frame.pc = "reply_ack" THEN "await_tasks" ELSE "returned"]

\* The handler after its reply returned: lines 111, 122 return; after the
\* acknowledgement the loop of create_task runs and the handler returns.
HandlerReturned(frame) == [frame EXCEPT !.log = Settle(@, "ok"), !.pc = "returned"]

\* The reply raised: handle_jm_command has no except clause.
HandlerRaised(frame) == [frame EXCEPT !.log = Settle(@, "raise"), !.pc = "raised"]

\* Identifiers of accepted commands whose tasks are not spawned yet.
RECURSIVE Pending(_)
Pending(i) ==
    IF i = 0 THEN 0
    ELSE Pending(i - 1) + (IF cmds[i].pc = "reply_ack" THEN Len(cmds[i].album_ids) ELSE 0)

\* ----------------------------------------------------------------- actions

Init ==
    /\ jm_option \in {"module", "None"}
    /\ chat \in MessageTypes
    /\ files \in SUBSET { ExpectedPdfPath(<<"1">>) }
    /\ cmds = <<>>
    /\ tasks = <<>>
    /\ searches = <<>>

\* A /jm message arrives and its handler runs to its first await.
HandleJmCommand ==
    \E text \in CommandTexts :
        LET frame == Dispatch(text, chat)
        IN  /\ Len(cmds) < MaxCmds
            /\ Len(tasks) + Pending(Len(cmds)) + Len(frame.album_ids) <= MaxTasks
            /\ cmds' = Append(cmds, frame)
            /\ UNCHANGED <<jm_option, chat, files, tasks, searches>>

HandlerReplyPcs == {"reply_no_library", "reply_no_ids", "reply_ack"}

\* The reply of handler c returned.
HandlerResumes(c) ==
    /\ cmds[c].pc \in HandlerReplyPcs
    /\ cmds' = [cmds EXCEPT ![c] = HandlerReturned(cmds[c])]
    /\ tasks' = IF cmds[c].pc = "reply_ack"
                THEN tasks \o SpawnTasks(c, cmds[c])
                ELSE tasks
    /\ UNCHANGED <<jm_option, chat, files, searches>>

\* The reply of handler c raised.
HandlerFails(c) ==
    /\ cmds[c].pc \in HandlerReplyPcs
    /\ cmds' = [cmds EXCEPT ![c] = HandlerRaised(cmds[c])]
    /\ UNCHANGED <<jm_option, chat, files, tasks, searches>>

HandlerReplyReturns == \E c \in DOMAIN cmds : HandlerResumes(c)

HandlerReplyRaises == \E c \in DOMAIN cmds : HandlerFails(c)

Terminal(tk) == tk.pc \in {"returned", "raised"}

\* Task t runs for the first time, to its first await.  The field "after" is
\* history, not program state: the tasks for the same identifier that had
\* ended when t looked for its cache.
ChecksCache(t) ==
    \E sr \in SearchResults :
        /\ tasks[t].pc = "start"
        /\ tasks' = [tasks EXCEPT ![t] =
                       [CheckCache(tasks[t], sr) EXCEPT
                          !.after = {u \in DOMAIN tasks :
                                      /\ Terminal(tasks[u])
                                      /\ tasks[u].album_id = tasks[t].album_id}]]
        /\ UNCHANGED <<jm_option, chat, files, cmds, searches>>

\* Mutant of ReplyReturns: a task whose identifier another task has already
\* handed to the executor does not download it again.
ReplyReturns_Dedup(t) ==
    /\ tasks[t].pc \in ReplyPcs
    /\ tasks' = [tasks EXCEPT ![t] =
                   IF /\ tasks[t].pc = "reply_start"
                      /\ \E u \in DOMAIN tasks \ {t} :
                            /\ tasks[u].album_id = tasks[t].album_id
                            /\ \E i \in DOMAIN tasks[u].log :
                                  tasks[u].log[i].op = "download_album"
                   THEN ReturnNone([tasks[t] EXCEPT !.log = Settle(@, "ok")])
                   ELSE ReplyReturned(tasks[t])]
    /\ UNCHANGED <<jm_option, chat, files, cmds, searches>>

ReplyReturns(t) ==
    /\ tasks[t].pc \in ReplyPcs
    /\ tasks' = [tasks EXCEPT ![t] = ReplyReturned(tasks[t])]
    /\ UNCHANGED <<jm_option, chat, files, cmds, searches>>

ReplyRaises(t) ==
    /\ tasks[t].pc \in ReplyPcs
    /\ tasks' = [tasks EXCEPT ![t] = ReplyRaised(tasks[t])]
    /\ UNCHANGED <<jm_option, chat, files, cmds, searches>>

UploadReturns(t) ==
    /\ tasks[t].pc = "upload"
    /\ tasks' = [tasks EXCEPT ![t] = UploadReturned(tasks[t])]
    /\ UNCHANGED <<jm_option, chat, files, cmds, searches>>

UploadRaises(t) ==
    /\ tasks[t].pc = "upload"
    /\ tasks' = [tasks EXCEPT ![t] = UploadRaised(tasks[t])]
    /\ UNCHANGED <<jm_option, chat, files, cmds, searches>>

\* The executor's worker thread finishes client.download_album(album_id) for
\* task t: the library may have written the packed PDF into the download
\* directory.
WorkerEnds(t) ==
    \E wrote \in BOOLEAN, r \in DownloadResults(tasks[t].album_id) :
        /\ tasks[t].pc = "run_in_executor"
        /\ tasks[t].fut = "running"
        /\ tasks' = [tasks EXCEPT ![t].fut = "done", ![t].fut_result = r]
        /\ files' = IF wrote THEN files \cup {ExpectedPdfPath(tasks[t].album_id)}
                    ELSE files
        /\ UNCHANGED <<jm_option, chat, cmds, searches>>

\* Mutant of Resumes: the task goes on while its download is still running.
Resumes_BeforeDone(t) ==
    /\ tasks[t].pc = "run_in_executor"
    /\ tasks[t].fut \in {"running", "done"}
    /\ tasks' = [tasks EXCEPT ![t] = ExecutorResumed(tasks[t])]
    /\ UNCHANGED <<jm_option, chat, files, cmds, searches>>

\* The event loop resumes task t, whose future is done.
Resumes(t) ==
    /\ tasks[t].pc = "run_in_executor"
    /\ tasks[t].fut = "done"
    /\ tasks' = [tasks EXCEPT ![t] = ExecutorResumed(tasks[t])]
    /\ UNCHANGED <<jm_option, chat, files, cmds, searches>>

\* Some step of task t (its own, or its worker's).
TaskStep(t) ==
    \/ ChecksCache(t)
    \/ ReplyReturns(t)
    \/ ReplyRaises(t)
    \/ UploadReturns(t)
    \/ UploadRaises(t)
    \/ WorkerEnds(t)
    \/ Resumes(t)

TaskChecksCache == \E t \in DOMAIN tasks : ChecksCache(t)

TaskReplyReturns == \E t \in DOMAIN tasks : ReplyReturns(t)

TaskReplyRaises == \E t \in DOMAIN tasks : ReplyRaises(t)

TaskUploadReturns == \E t \in DOMAIN tasks : UploadReturns(t)

TaskUploadRaises == \E t \in DOMAIN tasks : UploadRaises(t)

WorkerFinishes == \E t \in DOMAIN tasks : WorkerEnds(t)

TaskResumes == \E t \in DOMAIN tasks : Resumes(t)

Next ==
    \/ HandleJmCommand
    \/ HandlerReplyReturns
    \/ HandlerReplyRaises
    \/ TaskChecksCache
    \/ TaskReplyReturns
    \/ TaskReplyRaises
    \/ TaskUploadReturns
    \/ TaskUploadRaises
    \/ WorkerFinishes
    \/ TaskResumes

Spec == Init /\ [][Next]_vars

\* The event loop runs every task that is ready, every awaited transport
\* call returns or raises, and every worker thread finishes its call.
FairTaskStep(t) == t \in DOMAIN tasks /\ TaskStep(t)

\* The runs with a single /jm command, under that scheduling.
HandleOneJmCommand == cmds = <<>> /\ HandleJmCommand

OneCommandNext ==
    \/ HandleOneJmCommand
    \/ HandlerReplyReturns
    \/ HandlerReplyRaises
    \/ TaskChecksCache
    \/ TaskReplyReturns
    \/ TaskReplyRaises
    \/ TaskUploadReturns
    \/ TaskUploadRaises
    \/ WorkerFinishes
    \/ TaskResumes

FairSpec ==
    Init /\ [][OneCommandNext]_vars /\ \A t \in 1..MaxTasks : WF_vars(FairTaskStep(t))

\* ------------------------------------------------------ the search handler

\* Search commands received in one run.
MaxSearches == 2

\* Items of one search_album result list.
MaxAlbums == 6

\* line 207: max_results
max_results == 5

\* The text after "/jm_search" (match.group(1)) of the commands the model sends.
SearchTexts == { <<" ">>, <<"a", " ">> }

\* The i-th album a search can list; every second one names no author.
Album(i) ==
    [id |-> i, title |-> <<"T", i>>,
     author_list |-> IF i % 2 = 0 THEN <<>> ELSE <<"p", "q">>]

\* The album lists a search can return: the first n albums, n = 0..MaxAlbums.
AlbumLists == { [i \in 1..n |-> Album(i)] : n \in 0..MaxAlbums }

\* What client.search_album(search_query) can produce: a SearchResult
\* (ok, msg, album_list), or an exception.
AlbumSearchResults ==
    { [raised |-> FALSE, ok |-> TRUE, msg |-> "", album_list |-> al] : al \in AlbumLists }
    \cup { [raised |-> FALSE, ok |-> FALSE, msg |-> "search refused", album_list |-> <<>>],
           [raised |-> TRUE, ok |-> FALSE, msg |-> "", album_list |-> <<>>] }

NoSearchResult == [raised |-> FALSE, ok |-> FALSE, msg |-> "", album_list |-> <<>>]

\* The parts of one reply of the search handler: which message it is, the
\* at_user prefix, the keyword, the count of the header line, the formatted
\* blocks in order, whether the usage hint ends it, and the text it carries.
SearchMessage(kind, at, query, n, blocks, hint, detail) ==
    [kind |-> kind, at |-> at, query |-> query, n |-> n, blocks |-> blocks,
     hint |-> hint, detail |-> detail]

\* Mutant of Slice: the list is not cut.
Slice_All(seq, n) == seq

\* album_list[:n]
Slice(seq, n) == SubSeq(seq, 1, IF Len(seq) < n THEN Len(seq) ELSE n)

\* lines 212-216: the block of one album
FormatBlock(album) ==
    [id |-> album.id, title |-> album.title,
     authors |-> IF album.author_list # <<>> THEN album.author_list ELSE <<"N/A">>]

\* lines 207-218: the blocks of the reply, in the order of the list
FormatBlocks(album_list) ==
    LET shown == Slice(album_list, max_results)
    IN  [i \in 1..Len(shown) |-> FormatBlock(shown[i])]

\* await self.send_reply(event, message) of the search handler
SearchReply(fr, message, pc) ==
    [fr EXCEPT !.log = Append(@, SendReplyCall(fr.message_type, message)), !.pc = pc]

\* lines 222-224: the except clause of the search handler
SearchExcept(fr, e) ==
    SearchReply(fr, SearchMessage("search_error", fr.at_user, fr.search_query, 0, <<>>, FALSE, e),
                "reply_error")

\* handle_jm_search up to its first await (lines 176-186)
DispatchSearch(text, message_type) ==
    LET search_query == Strip(text)
        at_user == AtUser(message_type)
        frame == [search_query |-> search_query, message_type |-> message_type,
                  at_user |-> at_user, pc |-> "", log |-> <<>>,
                  fut |-> "none", fut_result |-> NoSearchResult]
    IN  IF jm_option = "None"
        THEN SearchReply([frame EXCEPT !.search_query = None],
                         SearchMessage("no_library", "", None, 0, <<>>, FALSE, ""),
                         "reply_no_library")
        ELSE IF search_query = <<>>
             THEN SearchReply(frame, SearchMessage("no_keyword", "", None, 0, <<>>, FALSE, ""),
                              "reply_no_keyword")
             ELSE SearchReply(frame,
                              SearchMessage("searching", at_user, search_query, 0, <<>>, FALSE, ""),
                              "reply_searching")

\* lines 189-195: the blocking search handed to the default executor
SearchInExecutor(fr) ==
    [fr EXCEPT !.log = Append(@, Call("search_album", fr.search_query, NoMessage)),
               !.fut = "running", !.pc = "run_in_executor"]

\* lines 197-220: the handler resumes with the search's outcome
SearchResumed(fr) ==
    LET search_result == fr.fut_result
        album_list == search_result.album_list
    IN  IF search_result.raised
        THEN SearchExcept([fr EXCEPT !.log = Settle(@, "raise")], "SearchError")
        ELSE LET s == [fr EXCEPT !.log = Settle(@, "ok")]
             IN  IF ~search_result.ok
                 THEN SearchReply(s, SearchMessage("search_failed", fr.at_user, None, 0, <<>>,
                                                   FALSE, search_result.msg),
                                  "reply_outcome")
                 ELSE IF album_list = <<>>
                      THEN SearchReply(s, SearchMessage("not_found", fr.at_user, fr.search_query,
                                                        0, <<>>, FALSE, ""),
                                       "reply_outcome")
                      ELSE SearchReply(s, SearchMessage("results", fr.at_user, fr.search_query,
                                                        Len(Slice(album_list, max_results)),
                                                        FormatBlocks(album_list), TRUE, ""),
                                       "reply_outcome")

SearchReplyPcs ==
    {"reply_no_library", "reply_no_keyword", "reply_searching", "reply_outcome", "reply_error"}

\* An awaited send_reply of the search handler returned.
SearchReplyReturned(fr) ==
    LET s == [fr EXCEPT !.log = Settle(@, "ok")]
    IN  IF fr.pc = "reply_searching" THEN SearchInExecutor(s) ELSE ReturnNone(s)

\* An awaited send_reply of the search handler raised: the replies of lines
\* 198, 203 and 220 are inside the try, the others are not.
SearchReplyRaised(fr) ==
    LET s == [fr EXCEPT !.log = Settle(@, "raise")]
    IN  IF fr.pc = "reply_outcome" THEN SearchExcept(s, "TransportError") ELSE Escape(s)

\* A /jm_search message arrives and its handler runs to its first await.
HandleJmSearch ==
    \E text \in SearchTexts :
        /\ Len(searches) < MaxSearches
        /\ searches' = Append(searches, DispatchSearch(text, chat))
        /\ UNCHANGED <<jm_option, chat, files, cmds, tasks>>

SearchReplyReturns ==
    \E q \in DOMAIN searches :
        /\ searches[q].pc \in SearchReplyPcs
        /\ searches' = [searches EXCEPT ![q] = SearchReplyReturned(searches[q])]
        /\ UNCHANGED <<jm_option, chat, files, cmds, tasks>>

SearchReplyRaises ==
    \E q \in DOMAIN searches :
        /\ searches[q].pc \in SearchReplyPcs
        /\ searches' = [searches EXCEPT ![q] = SearchReplyRaised(searches[q])]
        /\ UNCHANGED <<jm_option, chat, files, cmds, tasks>>

\* The executor's worker thread finishes client.search_album(search_query).
SearchWorkerFinishes ==
    \E q \in DOMAIN searches, r \in AlbumSearchResults :
        /\ searches[q].pc = "run_in_executor"
        /\ searches[q].fut = "running"
        /\ searches' = [searches EXCEPT ![q].fut = "done", ![q].fut_result = r]
        /\ UNCHANGED <<jm_option, chat, files, cmds, tasks>>

\* The event loop resumes the search handler, whose future is done.
SearchResumes ==
    \E q \in DOMAIN searches :
        /\ searches[q].pc = "run_in_executor"
        /\ searches[q].fut = "done"
        /\ searches' = [searches EXCEPT ![q] = SearchResumed(searches[q])]
        /\ UNCHANGED <<jm_option, chat, files, cmds, tasks>>

SearchNext ==
    \/ HandleJmSearch
    \/ SearchReplyReturns
    \/ SearchReplyRaises
    \/ SearchWorkerFinishes
    \/ SearchResumes

\* The runs of the search handler alone.
SearchSpec == Init /\ [][SearchNext]_vars

\* ------------------------------------------------- reading a frame's log

SendOps == {"send_group_message", "send_private_message"}

UploadOps == {"upload_group_file", "upload_private_file"}

IsSend(e, kind) == e.op \in SendOps /\ e.message.kind = kind

IsUpload(e) == e.op \in UploadOps

\* Positions of the download_album and upload calls in a task's log.
Downloads(tk) == {i \in DOMAIN tk.log : tk.log[i].op = "download_album"}

Uploads(tk) == {i \in DOMAIN tk.log : IsUpload(tk.log[i])}

\* The task found <download_dir>/<album_id>.pdf when it looked.
DirectHit(tk) ==
    \E i \in DOMAIN tk.log : tk.log[i].op = "exists" /\ tk.log[i].res = "true"

\* The task found neither the file nor an index entry for its identifier.
CacheMiss(tk) ==
    /\ \E i \in DOMAIN tk.log : tk.log[i].op = "exists" /\ tk.log[i].res = "false"
    /\ \E i \in DOMAIN tk.log : tk.log[i].op = "search_cache" /\ tk.log[i].res = "ok"
    /\ tk.pdf_path = None

\* No transport call of the task raised.
TransportOk(tk) ==
    \A i \in DOMAIN tk.log :
        tk.log[i].op \in SendOps \cup UploadOps => tk.log[i].res # "raise"

\* download_album returned a result (it did not raise) and the task resumed.
Downloaded(tk) ==
    \E i \in Downloads(tk) : tk.log[i].res = "ok"

\* ------------------------------------------------------------------ claims

\* C1 as stated: a task that found <download_dir>/<I>.pdf at its cache check
\* ends having called the upload of send_file_and_notify with that path and
\* having made no download_album call.
C1_Original ==
    \A t \in DOMAIN tasks :
        LET tk == tasks[t]
        IN  (Terminal(tk) /\ DirectHit(tk)) =>
                /\ \E i \in Uploads(tk) : tk.log[i].path = ExpectedPdfPath(tk.album_id)
                /\ Downloads(tk) = {}

\* C1, amended: a task that found <download_dir>/<I>.pdf at its cache check
\* never calls download_album; its next call is the "cache found" notice of
\* line 253, and if that notice returns the next call is the upload of
\* send_file_and_notify with exactly that path, while if the notice raises no
\* upload is made and the generic error reply follows.
C1_CachedDelivery ==
    \A t \in DOMAIN tasks :
        LET tk == tasks[t]
            expected == ExpectedPdfPath(tk.album_id)
        IN  DirectHit(tk) =>
                /\ Downloads(tk) = {}
                /\ tk.pdf_path = expected
                /\ Len(tk.log) >= 2 /\ IsSend(tk.log[2], "found")
                /\ tk.log[2].res = "ok" =>
                       /\ Len(tk.log) >= 3 /\ IsUpload(tk.log[3])
                       /\ tk.log[3].path = expected
                /\ tk.log[2].res = "raise" =>
                       /\ Uploads(tk) = {}
                       /\ Len(tk.log) >= 3 /\ IsSend(tk.log[3], "error")
                /\ tk.log[2].res = "pending" => tk.pc = "reply_found"

\* C1 witness: a task that found its file, uploaded it and returned.
C1_Witness ==
    \E t \in DOMAIN tasks :
        LET tk == tasks[t]
        IN  /\ DirectHit(tk) /\ tk.pc = "returned"
            /\ \E i \in Uploads(tk) :
                   /\ tk.log[i].path = ExpectedPdfPath(tk.album_id)
                   /\ tk.log[i].res = "ok"

\* C2 as stated: a task that found neither the file nor an index entry ends
\* having called download_album exactly once, with its identifier.
C2_Original ==
    \A t \in DOMAIN tasks :
        LET tk == tasks[t]
        IN  (Terminal(tk) /\ CacheMiss(tk)) =>
                /\ Cardinality(Downloads(tk)) = 1
                /\ \A i \in Downloads(tk) : tk.log[i].path = tk.album_id

\* C2, amended: a task that found neither the file nor an index entry calls
\* download_album at most once, with its identifier as the argument: exactly
\* once, right after the "download starts" notice of line 259 returned, and
\* not at all if that notice raised.
C2_FetchOnceAfterNotice ==
    \A t \in DOMAIN tasks :
        LET tk == tasks[t]
        IN  CacheMiss(tk) =>
                /\ Len(tk.log) >= 3 /\ IsSend(tk.log[3], "start")
                /\ \A i \in Downloads(tk) : tk.log[i].path = tk.album_id
                /\ tk.log[3].res = "ok" => Downloads(tk) = {4}
                /\ tk.log[3].res # "ok" => Downloads(tk) = {}

\* C2 witness: a task that missed the cache, downloaded once and ended.
C2_Witness ==
    \E t \in DOMAIN tasks :
        LET tk == tasks[t]
        IN  /\ CacheMiss(tk) /\ Terminal(tk)
            /\ Downloads(tk) = {4} /\ tk.log[4].res = "ok"

\* C3 as stated: after download_album returned ok = false, the task makes no
\* upload call and sends the requester a reply that carries the result's msg.
\* (Stated for the runs in which no transport call raises.)
C3_FailureReplyCarriesMsg ==
    \A t \in DOMAIN tasks :
        LET tk == tasks[t]
        IN  (Terminal(tk) /\ TransportOk(tk) /\ Downloaded(tk) /\ ~tk.dl_result.ok) =>
                /\ Uploads(tk) = {}
                /\ \E i \in DOMAIN tk.log :
                       /\ tk.log[i].op \in SendOps
                       /\ tk.log[i].message.album_id = tk.album_id
                       /\ tk.log[i].message.detail = tk.dl_result.msg

\* C4 as stated: for a command with one identifier I, a cache miss and a
\* download that returned ok with a path ending in ".pdf", the calls are, in
\* this order: the acknowledgement, download_album(I), the upload of that
\* path, the completion notice naming I.
\* (Stated for the runs in which no transport call raises.)
C4_FetchThenDeliver ==
    \A t \in DOMAIN tasks :
        LET tk == tasks[t]
            frame == cmds[tk.cmd]
        IN  (/\ Terminal(tk) /\ TransportOk(tk) /\ CacheMiss(tk)
             /\ Len(frame.album_ids) = 1
             /\ Downloaded(tk) /\ tk.dl_result.ok
             /\ EndsWith(tk.dl_result.file_path, PdfExt)) =>
                /\ IsSend(frame.log[1], "ack") /\ frame.log[1].message.n = 1
                /\ \E i, j, k \in DOMAIN tk.log :
                       /\ i < j /\ j < k
                       /\ tk.log[i].op = "download_album" /\ tk.log[i].path = tk.album_id
                       /\ IsUpload(tk.log[j]) /\ tk.log[j].path = tk.dl_result.file_path
                       /\ IsSend(tk.log[k], "done")
                       /\ tk.log[k].message.album_id = tk.album_id

\* The frames of the tasks command c spawned.
TasksOf(c) == {t \in DOMAIN tasks : tasks[t].cmd = c}

\* The k-th task of command c, in spawn order.
KthTask(c, k) ==
    CHOOSE t \in TasksOf(c) : Cardinality({u \in TasksOf(c) : u < t}) = k - 1

\* The numeric tokens of a text, read off the text itself: a token starts at
\* a digit that no digit precedes and runs to the last digit before the next
\* non-digit.
TokenStarts(text) ==
    {i \in DOMAIN text : IsDigit(text[i]) /\ (i = 1 \/ ~IsDigit(text[i - 1]))}

TokenAt(text, i) ==
    LET last == CHOOSE j \in i..Len(text) :
                    /\ \A m \in i..j : IsDigit(text[m])
                    /\ (j = Len(text) \/ ~IsDigit(text[j + 1]))
    IN  SubSeq(text, i, last)

KthToken(text, k) ==
    TokenAt(text, CHOOSE i \in TokenStarts(text) :
                      Cardinality({j \in TokenStarts(text) : j < i}) = k - 1)

\* A task of command c appears in this step.
Spawned(c) == \E t \in DOMAIN tasks' : t \notin DOMAIN tasks /\ tasks'[t].cmd = c

\* C5 as stated: a handler past its library guard whose text holds n >= 1
\* numeric tokens ends having acknowledged with the count n and having
\* spawned exactly n tasks.
C5_Original ==
    \A c \in DOMAIN cmds :
        LET frame == cmds[c]
            n == Cardinality(TokenStarts(frame.text_content))
        IN  (jm_option = "module" /\ n >= 1 /\ frame.pc \in {"returned", "raised"}) =>
                /\ IsSend(frame.log[1], "ack") /\ frame.log[1].message.n = n
                /\ Cardinality(TasksOf(c)) = n

\* C5, amended: a handler past its library guard whose text holds n >= 1
\* numeric tokens (duplicates counted) makes one call, the acknowledgement
\* with the count n; once that call has returned it has spawned exactly n
\* tasks, the k-th for the k-th token, and if the call raises it spawns none;
\* every task that has run made exactly one probe of its own expected path,
\* as its first call.
C5_OneTaskPerToken ==
    \A c \in DOMAIN cmds :
        LET frame == cmds[c]
            n == Cardinality(TokenStarts(frame.text_content))
        IN  (jm_option = "module" /\ n >= 1) =>
                /\ Len(frame.log) = 1
                /\ IsSend(frame.log[1], "ack") /\ frame.log[1].message.n = n
                /\ frame.log[1].res = "ok" =>
                       /\ Cardinality(TasksOf(c)) = n
                       /\ \A k \in 1..n :
                              tasks[KthTask(c, k)].album_id = KthToken(frame.text_content, k)
                /\ frame.log[1].res # "ok" => TasksOf(c) = {}
                /\ \A t \in TasksOf(c) :
                       tasks[t].pc # "start" =>
                           /\ {i \in DOMAIN tasks[t].log : tasks[t].log[i].op = "exists"} = {1}
                           /\ tasks[t].log[1].path = ExpectedPdfPath(tasks[t].album_id)

\* C5 witness: a command that names one identifier twice got two tasks, and
\* both have looked for their cache.
C5_Witness ==
    \E c \in DOMAIN cmds :
        \E t, u \in TasksOf(c) :
            /\ t # u /\ tasks[t].album_id = tasks[u].album_id
            /\ tasks[t].pc # "start" /\ tasks[u].pc # "start"
            /\ cmds[c].log[1].message.n = 2

\* C6: a handler past its library guard whose text holds no numeric token
\* makes exactly one call, the validation reply, and no task of that command
\* ever exists: no cache probe, no download and no upload comes of it.
C6_NoIdsNoTask ==
    \A c \in DOMAIN cmds :
        LET frame == cmds[c]
        IN  (jm_option = "module" /\ TokenStarts(frame.text_content) = {}) =>
                /\ Len(frame.log) = 1
                /\ IsSend(frame.log[1], "no_ids")
                /\ frame.pc \in {"reply_no_ids", "returned", "raised"}
                /\ TasksOf(c) = {}

\* C6 witness: the handler of a command without identifiers has returned.
C6_Witness ==
    \E c \in DOMAIN cmds :
        /\ jm_option = "module"
        /\ TokenStarts(cmds[c].text_content) = {}
        /\ cmds[c].pc = "returned"
        /\ cmds[c].log[1].res = "ok"

\* C7: tasks of a command appear only in the step in which its handler
\* resumes from the acknowledgement, which has then returned; in that same
\* step the handler returns, every new task is still unstarted (it has made
\* no call) and no other frame moves; and whatever the tasks are doing, a
\* handler waiting for its reply can resume.
C7_AckThenSpawnNoWait ==
    /\ [][\A c \in DOMAIN cmds' :
            Spawned(c) =>
                /\ c \in DOMAIN cmds
                /\ cmds[c].pc = "reply_ack"
                /\ IsSend(cmds[c].log[1], "ack")
                /\ cmds'[c].log[1].res = "ok"
                /\ cmds'[c].pc = "returned"
                /\ \A t \in DOMAIN tasks' :
                       IF t \in DOMAIN tasks
                       THEN tasks'[t] = tasks[t]
                       ELSE tasks'[t].pc = "start" /\ tasks'[t].log = <<>>]_vars
    /\ [](\A c \in DOMAIN cmds :
            cmds[c].pc \in HandlerReplyPcs => ENABLED HandlerResumes(c))

\* C7 witness: a handler has returned while a task it spawned is in its
\* download.
C7_Witness ==
    \E c \in DOMAIN cmds :
        /\ cmds[c].pc = "returned"
        /\ \E t \in TasksOf(c) : tasks[t].pc = "run_in_executor"

\* The calls whose exception process_download's except clause catches: those
\* made in its try body, and the failure notice of send_file_and_notify's own
\* except clause, whose exception propagates to the caller.
CaughtAtTaskBoundary(e) ==
    \/ e.op \in {"search_cache", "download_album"}
    \/ IsSend(e, "found")
    \/ IsSend(e, "start")
    \/ IsSend(e, "send_failed")

\* The calls whose exception send_file_and_notify's except clause catches.
CaughtInDelivery(e) == IsUpload(e) \/ IsSend(e, "done")

\* C8 as stated: a task in which some call raised ends without the exception
\* leaving it and with a generic error reply for its identifier.
C8_Original ==
    \A t \in DOMAIN tasks :
        LET tk == tasks[t]
        IN  (Terminal(tk) /\ \E i \in DOMAIN tk.log : tk.log[i].res = "raise") =>
                /\ tk.pc = "returned"
                /\ \E j \in DOMAIN tk.log :
                       IsSend(tk.log[j], "error") /\ tk.log[j].message.album_id = tk.album_id

\* C8, amended: an exception of the cache search, of the download, of the
\* result handling or of a reply awaited in process_download's try body is
\* followed at once by the generic error reply for the task's identifier; an
\* exception of the upload or of the completion notice is caught inside
\* send_file_and_notify and followed by the delivery-failure reply; the only
\* exception that leaves a task is one raised by the generic error reply
\* itself.  However many tasks have failed, every task that has not ended
\* and every handler waiting for its reply can take its next step.
C8_TaskBoundary ==
    /\ \A t \in DOMAIN tasks :
         LET tk == tasks[t]
         IN  /\ \A i \in DOMAIN tk.log :
                  LET e == tk.log[i]
                  IN  /\ ((e.res = "raise" /\ CaughtAtTaskBoundary(e))
                            \/ (e.op = "download_album" /\ e.res = "ok")) =>
                             /\ i < Len(tk.log)
                             /\ IsSend(tk.log[i + 1], "error")
                             /\ tk.log[i + 1].message.album_id = tk.album_id
                      /\ (e.res = "raise" /\ CaughtInDelivery(e)) =>
                             /\ i < Len(tk.log)
                             /\ IsSend(tk.log[i + 1], "send_failed")
                      /\ (e.res = "raise" /\ IsSend(e, "error")) =>
                             i = Len(tk.log) /\ tk.pc = "raised"
             /\ tk.pc = "raised" =>
                  /\ tk.log # <<>>
                  /\ IsSend(tk.log[Len(tk.log)], "error")
                  /\ tk.log[Len(tk.log)].res = "raise"
             /\ ~Terminal(tk) => ENABLED TaskStep(t)
    /\ \A c \in DOMAIN cmds :
         cmds[c].pc \in HandlerReplyPcs => ENABLED HandlerResumes(c)

\* C8 witness: of two tasks of one command, one ended with an exception of
\* its cache search reported, the other ran on after that and returned.
C8_Witness ==
    \E t, u \in DOMAIN tasks :
        /\ t # u /\ tasks[t].cmd = tasks[u].cmd
        /\ tasks[t].album_id = tasks[u].album_id
        /\ \E i \in DOMAIN tasks[t].log :
               /\ tasks[t].log[i].op = "search_cache" /\ tasks[t].log[i].res = "raise"
               /\ IsSend(tasks[t].log[i + 1], "error")
        /\ Terminal(tasks[t])
        /\ t \in tasks[u].after
        /\ tasks[u].pc = "returned"

\* C9: when a task for I looks for its cache after an earlier task for I has
\* ended whose download left <download_dir>/<I>.pdf on disk, it takes the
\* cache-hit path with that file (no index search); a task on the cache-hit
\* path never calls download_album and no task calls it twice: the two runs
\* make one download call between them.
C9_SecondRunHitsCache ==
    /\ [][\A t \in DOMAIN tasks :
            LET expected == ExpectedPdfPath(tasks[t].album_id)
            IN  (/\ tasks[t].pc = "start" /\ tasks'[t].pc # "start"
                 /\ expected \in files
                 /\ \E u \in DOMAIN tasks :
                        /\ Terminal(tasks[u])
                        /\ tasks[u].album_id = tasks[t].album_id
                        /\ Downloads(tasks[u]) # {}) =>
                    /\ tasks'[t].pc = "reply_found"
                    /\ tasks'[t].pdf_path = expected
                    /\ \A i \in DOMAIN tasks'[t].log : tasks'[t].log[i].op # "search_cache"]_vars
    /\ [](\A t \in DOMAIN tasks :
            /\ Cardinality(Downloads(tasks[t])) <= 1
            /\ tasks[t].pdf_path # None => Downloads(tasks[t]) = {}
            /\ \A u \in tasks[t].after :
                   (Downloads(tasks[u]) # {} /\ DirectHit(tasks[t])) =>
                       Cardinality(Downloads(tasks[u])) + Cardinality(Downloads(tasks[t])) = 1)

\* C9 witness: a first command's task downloaded I and ended; a second
\* command's task for I, run after that, found the file, delivered it and
\* returned.
C9_Witness ==
    \E t \in DOMAIN tasks :
        \E u \in tasks[t].after :
            /\ tasks[u].cmd < tasks[t].cmd
            /\ Downloads(tasks[u]) # {}
            /\ DirectHit(tasks[t])
            /\ tasks[t].pc = "returned"
            /\ Uploads(tasks[t]) # {}

\* C10: when the upload raises, the next call is the delivery-failure reply
\* for the identifier, made by send_file_and_notify's own except clause; the
\* task sends no completion notice, makes no second upload and no download;
\* an artifact of the download directory is still on disk, and every task for
\* the same identifier that looks for its cache after this task ended finds
\* it and takes the cache-hit path.
C10_UploadRejected ==
    \A t \in DOMAIN tasks :
        LET tk == tasks[t]
        IN  \A i \in Uploads(tk) :
                tk.log[i].res = "raise" =>
                    /\ i < Len(tk.log)
                    /\ IsSend(tk.log[i + 1], "send_failed")
                    /\ tk.log[i + 1].message.album_id = tk.album_id
                    /\ \A j \in DOMAIN tk.log : ~IsSend(tk.log[j], "done")
                    /\ Uploads(tk) = {i}
                    /\ Downloads(tk) = {}
                    /\ tk.log[i].path = ExpectedPdfPath(tk.album_id) =>
                           /\ tk.log[i].path \in files
                           /\ \A u \in DOMAIN tasks :
                                  t \in tasks[u].after =>
                                      /\ DirectHit(tasks[u])
                                      /\ tasks[u].pdf_path = tk.log[i].path
                                      /\ Downloads(tasks[u]) = {}

\* C10 witness: a task whose upload was rejected reported it and returned; a
\* task of a later command for the same identifier then found the file.
C10_Witness ==
    \E t, u \in DOMAIN tasks :
        /\ \E i \in Uploads(tasks[t]) :
               /\ tasks[t].log[i].res = "raise"
               /\ tasks[t].log[i].path = ExpectedPdfPath(tasks[t].album_id)
        /\ tasks[t].pc = "returned"
        /\ t \in tasks[u].after
        /\ tasks[t].cmd < tasks[u].cmd
        /\ DirectHit(tasks[u])

\* ------------------------------------------------- claims on the search

\* Positions of the search_album calls and of the result replies in the log
\* of a search handler.
AlbumSearches(fr) == {i \in DOMAIN fr.log : fr.log[i].op = "search_album"}

ResultReplies(fr) == {i \in DOMAIN fr.log : IsSend(fr.log[i], "results")}

Min(a, b) == IF a < b THEN a ELSE b

\* C11: a search handler whose keyword is not empty and whose search_album
\* call returned ok with a list of n >= 1 albums has made exactly one
\* search_album call, with the keyword, and exactly one result reply; that
\* reply holds min(n, 5) blocks, the i-th block giving the id, the title and
\* the authors ("N/A" for none) of the i-th album of the list, its header
\* counts min(n, 5), and it ends with the usage hint.  No task exists in any
\* run of the search handler.
C11_SearchReply ==
    /\ tasks = <<>>
    /\ \A q \in DOMAIN searches :
          LET fr == searches[q]
              album_list == fr.fut_result.album_list
              n == Len(album_list)
          IN  (/\ fr.search_query # <<>>
               /\ fr.pc \in {"reply_outcome", "reply_error", "returned", "raised"}
               /\ ~fr.fut_result.raised /\ fr.fut_result.ok /\ n >= 1) =>
                  /\ Cardinality(AlbumSearches(fr)) = 1
                  /\ \A i \in AlbumSearches(fr) : fr.log[i].path = fr.search_query
                  /\ Cardinality(ResultReplies(fr)) = 1
                  /\ \A i \in ResultReplies(fr) :
                        LET m == fr.log[i].message
                        IN  /\ Len(m.blocks) = Min(n, 5)
                            /\ m.n = Min(n, 5)
                            /\ m.hint
                            /\ \A k \in 1..Len(m.blocks) :
                                  /\ m.blocks[k].id = album_list[k].id
                                  /\ m.blocks[k].title = album_list[k].title
                                  /\ m.blocks[k].authors =
                                        IF album_list[k].author_list = <<>>
                                        THEN <<"N/A">>
                                        ELSE album_list[k].author_list

\* C11 happens: a search that listed more than five albums was answered and
\* the handler returned.
C11_Witness ==
    \E q \in DOMAIN searches :
        /\ searches[q].pc = "returned"
        /\ searches[q].fut_result.ok
        /\ Len(searches[q].fut_result.album_list) > 5
        /\ \E i \in ResultReplies(searches[q]) :
              /\ searches[q].log[i].res = "ok"
              /\ Len(searches[q].log[i].message.blocks) = 5

\* ------------------------------------------- claims on the tasks, continued

\* C12 as stated: a task whose download returned ok with a path that is
\* absent or does not end in ".pdf" ends either having called the upload with
\* the fallback path <download_dir>/<I>.pdf, or having sent the
\* packaging-failure reply without any upload.
C12_FallbackAfterFetch ==
    \A t \in DOMAIN tasks :
        LET tk == tasks[t]
            final_pdf_path == tk.dl_result.file_path
        IN  (/\ Terminal(tk)
             /\ Downloaded(tk)
             /\ tk.dl_result.ok
             /\ (final_pdf_path = None \/ ~EndsWith(final_pdf_path, PdfExt))
             /\ TransportOk(tk)) =>
                \/ \E i \in Uploads(tk) : tk.log[i].path = ExpectedPdfPath(tk.album_id)
                \/ /\ \E i \in DOMAIN tk.log : IsSend(tk.log[i], "packaging_failed")
                   /\ Uploads(tk) = {}

\* The download of task t is running on a worker thread.
InFlight(t) == tasks[t].pc = "run_in_executor" /\ tasks[t].fut = "running"

\* The step a frame is waiting for can be taken.
TaskCanProceed(u) ==
    /\ tasks[u].pc = "start" => ENABLED ChecksCache(u)
    /\ tasks[u].pc \in ReplyPcs => ENABLED ReplyReturns(u)
    /\ tasks[u].pc = "upload" => ENABLED UploadReturns(u)
    /\ InFlight(u) => ENABLED WorkerEnds(u)
    /\ (tasks[u].pc = "run_in_executor" /\ tasks[u].fut = "done") => ENABLED Resumes(u)

\* C13: while the download of a task is running on the worker thread, every
\* other task can take the step it is waiting for (its cache check, the
\* return of its reply, which starts its own download or its upload, the
\* return of its upload), every handler waiting for its reply can resume and
\* spawn, and a new command can be accepted; the task itself cannot resume
\* before the worker has finished, and can once it has.
C13_FetchDoesNotBlock ==
    \A t \in DOMAIN tasks :
        /\ InFlight(t) =>
              /\ \A u \in DOMAIN tasks \ {t} : TaskCanProceed(u)
              /\ \A c \in DOMAIN cmds :
                    cmds[c].pc \in HandlerReplyPcs => ENABLED HandlerResumes(c)
              /\ Len(cmds) < MaxCmds => ENABLED HandleJmCommand
              /\ ~ENABLED Resumes(t)
              /\ ENABLED WorkerEnds(t)
        /\ (tasks[t].pc = "run_in_executor" /\ tasks[t].fut = "done") => ENABLED Resumes(t)

\* C13 happens: one task's download is running while another task is in its
\* upload and a handler waits for its reply.
C13_Witness ==
    \E t \in DOMAIN tasks, u \in DOMAIN tasks, c \in DOMAIN cmds :
        /\ t # u
        /\ InFlight(t)
        /\ tasks[u].pc = "upload"
        /\ cmds[c].pc \in HandlerReplyPcs

\* The "download starts" notice of the task returned.
StartNoticeReturned(tk) ==
    \E i \in DOMAIN tk.log : IsSend(tk.log[i], "start") /\ tk.log[i].res = "ok"

\* The task's cache check came to an answer: the file, an index entry, or a miss.
CacheAnswered(tk) ==
    \/ DirectHit(tk)
    \/ \E i \in DOMAIN tk.log : tk.log[i].op = "search_cache" /\ tk.log[i].res = "ok"

\* C14 as stated: of two tasks of one command for the same identifier, if one
\* missed the cache (so the file was not on disk when they were spawned) and
\* the index listed nothing for the other, both missed and both called
\* download_album.
C14_Original ==
    \A t \in DOMAIN tasks, u \in DOMAIN tasks :
        (/\ t # u
         /\ tasks[t].cmd = tasks[u].cmd
         /\ tasks[t].album_id = tasks[u].album_id
         /\ Terminal(tasks[t]) /\ Terminal(tasks[u])
         /\ CacheMiss(tasks[t])
         /\ CacheAnswered(tasks[u])
         /\ tasks[u].pdf_path \in {None, ExpectedPdfPath(tasks[u].album_id)}) =>
            /\ CacheMiss(tasks[u])
            /\ Downloads(tasks[t]) # {}
            /\ Downloads(tasks[u]) # {}

\* C14, amended: nothing deduplicates two tasks for the same identifier.
\* Each task that missed the cache sends its own "download starts" notice,
\* and each whose notice returned has called download_album once with the
\* identifier, whatever the other task has done; a task whose notice raised
\* has not called it.
C14_NoDeduplication ==
    \A t \in DOMAIN tasks, u \in DOMAIN tasks :
        LET tk == tasks[t]
        IN  (t # u /\ tk.album_id = tasks[u].album_id /\ CacheMiss(tk)) =>
                /\ \E i \in DOMAIN tk.log : IsSend(tk.log[i], "start")
                /\ StartNoticeReturned(tk) =>
                      /\ Cardinality(Downloads(tk)) = 1
                      /\ \A i \in Downloads(tk) : tk.log[i].path = tk.album_id
                /\ ~StartNoticeReturned(tk) => Downloads(tk) = {}

\* C14 happens: two tasks of one command for the same identifier have their
\* downloads running at the same time.
C14_Witness ==
    \E t \in DOMAIN tasks, u \in DOMAIN tasks :
        /\ t # u
        /\ tasks[t].cmd = tasks[u].cmd
        /\ tasks[t].album_id = tasks[u].album_id
        /\ InFlight(t) /\ InFlight(u)

\* C15: in the log of every task, every download_album call comes after the
\* task's own cache check (the probe of the expected path, answered "absent",
\* and the index search, answered without a match) and after its "download
\* starts" notice has returned; and every upload of a task that missed the
\* cache comes after a download_album call of that task that has returned.
\* Tasks of one command are not ordered: see the witness.
C15_CheckFetchDeliver ==
    \A t \in DOMAIN tasks :
        LET tk == tasks[t]
        IN  /\ \A d \in Downloads(tk) :
                  /\ \E i \in 1..(d - 1) : tk.log[i].op = "exists" /\ tk.log[i].res = "false"
                  /\ \E i \in 1..(d - 1) : tk.log[i].op = "search_cache" /\ tk.log[i].res = "ok"
                  /\ \E i \in 1..(d - 1) : IsSend(tk.log[i], "start") /\ tk.log[i].res = "ok"
            /\ \A i \in DOMAIN tk.log :
                  tk.log[i].op \in {"exists", "search_cache"} =>
                      \A d \in Downloads(tk) : i < d
            /\ \A up \in Uploads(tk) :
                  CacheMiss(tk) => \E d \in Downloads(tk) : d < up /\ tk.log[d].res = "ok"

\* C15 happens: of two tasks of one command the one spawned second has ended,
\* after its cache check and its download, while the one spawned first has
\* not.
C15_Witness ==
    \E t \in DOMAIN tasks, u \in DOMAIN tasks :
        /\ t < u
        /\ tasks[t].cmd = tasks[u].cmd
        /\ Terminal(tasks[u])
        /\ Downloaded(tasks[u])
        /\ ~Terminal(tasks[t])
        /\ tasks[t].pc # "start"

\* Positions of the index searches in a task's log.
IndexSearches(tk) == {i \in DOMAIN tk.log : tk.log[i].op = "search_cache"}

\* The entries of an index answer that end in <I>.pdf.
Matching(file_list, album_id) ==
    {k \in DOMAIN file_list : EndsWith(file_list[k], album_id \o PdfExt)}

\* What C16 says the lookup leaves in pdf_path when the index answers sr.
IndexAnswer(sr, album_id) ==
    IF sr.ok /\ Matching(sr.file_list, album_id) # {}
    THEN sr.file_list[CHOOSE k \in Matching(sr.file_list, album_id) :
                         \A j \in Matching(sr.file_list, album_id) : k <= j]
    ELSE None

\* C16: a task that found <download_dir>/<I>.pdf has made no search_cache
\* call and holds that path; a task that did not find it made exactly one
\* search_cache call, for I, right after the probe.  For a task about to look
\* and every answer sr the index can give: if the path exists the lookup
\* yields it without a search_cache call, and if not, the lookup yields the
\* first entry of sr's list that ends in <I>.pdf when sr reports ok and
\* nothing otherwise.
C16_IndexOnlyOnMiss ==
    \A t \in DOMAIN tasks :
        LET tk == tasks[t]
            expected == download_dir \o <<"/">> \o tk.album_id \o PdfExt
        IN  /\ DirectHit(tk) => IndexSearches(tk) = {} /\ tk.pdf_path = expected
            /\ \A i \in IndexSearches(tk) :
                  /\ i = 2
                  /\ tk.log[1].op = "exists" /\ tk.log[1].res = "false"
                  /\ tk.log[1].path = expected
                  /\ tk.log[i].path = tk.album_id
            /\ (tk.pc # "start" /\ ~DirectHit(tk)) => Cardinality(IndexSearches(tk)) = 1
            /\ tk.pc = "start" =>
                  \A sr \in SearchResults :
                      LET r == LocateCache(tk, sr)
                      IN  IF expected \in files
                          THEN r.pdf_path = expected /\ IndexSearches(r) = {}
                          ELSE /\ IndexSearches(r) = {2}
                               /\ ~sr.raised => r.pdf_path = IndexAnswer(sr, tk.album_id)

\* C16 happens: a task that did not find the expected path took its file
\* from the index.
C16_Witness ==
    \E t \in DOMAIN tasks :
        /\ ~DirectHit(tasks[t])
        /\ IndexSearches(tasks[t]) # {}
        /\ tasks[t].pdf_path # None
        /\ Uploads(tasks[t]) # {}

\* C17: if the event loop keeps running ready tasks and every transport and
\* library call returns or raises, every spawned task reaches the end of
\* process_download: it returns, or the exception of its last reply leaves it.
C17_TasksTerminate ==
    \A t \in 1..MaxTasks :
        (t \in DOMAIN tasks) ~> (t \in DOMAIN tasks /\ Terminal(tasks[t]))

\* C17 happens: every task the run could spawn has ended, one after a
\* download and one after an upload.
C17_Witness ==
    /\ Len(tasks) = MaxTasks
    /\ \A t \in DOMAIN tasks : Terminal(tasks[t])
    /\ \E t \in DOMAIN tasks : Downloaded(tasks[t])
    /\ \E t \in DOMAIN tasks : Uploads(tasks[t]) # {}

\* The replies that tell the requester how the task ended: completion,
\* fetch failure, packaging failure, delivery failure, generic error.
TerminalKinds == {"done", "fetch_failed", "packaging_failed", "send_failed", "error"}

TerminalNotices(tk) ==
    {i \in DOMAIN tk.log : tk.log[i].op \in SendOps /\ tk.log[i].message.kind \in TerminalKinds}

\* C18 as stated: a task that has ended has made exactly one terminal
\* notification call, whichever of its transport calls raised.
C18_OneTerminalNotice ==
    \A t \in DOMAIN tasks :
        Terminal(tasks[t]) => Cardinality(TerminalNotices(tasks[t])) = 1

\* C19 as stated: every upload of a task for identifier I has a path whose
\* file name is exactly <I>.pdf.
C19_OwnArtifactOnly ==
    \A t \in DOMAIN tasks :
        \A i \in Uploads(tasks[t]) :
            Basename(tasks[t].log[i].path) = tasks[t].album_id \o PdfExt

====
